---- MODULE Spec2Model ----
(***************************************************************************)
(* TaskMaster API: the user collection with its refresh-token sets, the    *)
(* todo collection, the JWT helpers and the route handlers of              *)
(* routes/auth.js and routes/todos.js.                                     *)
(*                                                                         *)
(* The todo routes are modelled one action per request (authenticate,      *)
(* ownership check, handler, pre-save hook and database write together).   *)
(* The auth routes are modelled one action per database round trip, so     *)
(* that requests of the same user interleave.                              *)
(***************************************************************************)
EXTENDS Integers, Sequences, FiniteSets, TLC

\* ------------------------------------------------------------------ bounds
\* The clock runs 0..MaxTime; one tick is one second of Date.now() as far as
\* jwt's iat is concerned.
MaxTime == 2
\* Token lifetimes in ticks (JWT_EXPIRE / JWT_REFRESH_EXPIRE, scaled).
AccessTTL == 2
RefreshTTL == 2
\* How many todos are ever created (ObjectIds are never reused).
MaxTodos == 2

\* ------------------------------------------------------------------ values
Null == <<>>
Date(t) == <<t>>

UserIds == {1, 2}
TodoIds == 1..MaxTodos

JWT_SECRET == "JWT_SECRET"
JWT_REFRESH_SECRET == "JWT_REFRESH_SECRET"

PriorityEnum == {"low", "medium", "high"}

VARIABLES
    users,          \* the users collection: _id -> document
    todos,          \* the todos collection: _id -> document
    nextTodoId,     \* the next fresh todo _id
    now,            \* the clock
    refreshSecret,  \* process.env.JWT_REFRESH_SECRET || process.env.JWT_SECRET
    issued,         \* tokens handed to clients in responses
    reqs,           \* auth requests in flight: slot -> request state
    res,            \* the response the last step sent (NoResponse: none)
    revoked         \* history: the refresh tokens that had been handed out when a
                    \* logout-all or change-password of their user answered 200

vars == <<users, todos, nextTodoId, now, refreshSecret, issued, reqs, res, revoked>>

\* ------------------------------------------------------------------ tokens
NoToken == [userId |-> 0, type |-> "none", key |-> "none", iat |-> 0, exp |-> 0]

\* jwt.sign({ userId }, JWT_SECRET, { expiresIn })
AccessToken(userId, t) ==
    [userId |-> userId, type |-> "access", key |-> JWT_SECRET, iat |-> t, exp |-> t + AccessTTL]

\* jwt.sign({ userId, type: 'refresh' }, JWT_REFRESH_SECRET || JWT_SECRET, { expiresIn })
RefreshToken(userId, t) ==
    [userId |-> userId, type |-> "refresh", key |-> refreshSecret, iat |-> t, exp |-> t + RefreshTTL]

generateTokens(userId) ==
    [accessToken |-> AccessToken(userId, now), refreshToken |-> RefreshToken(userId, now)]

\* A token signed by somebody who does not know the secret.
ForgedToken(userId) ==
    [userId |-> userId, type |-> "access", key |-> "forged", iat |-> 0, exp |-> MaxTime + 1]

\* jwt.verify(token, secret): the signature first, then the expiry.
jwtVerify(token, secret) ==
    IF token.key # secret THEN "JsonWebTokenError"
    ELSE IF now >= token.exp THEN "TokenExpiredError"
    ELSE "ok"

\* ------------------------------------------------------------------ authenticate
\* An authenticate that does not look at user.isActive.
authenticateInactiveToo(bearer) ==
    IF bearer = NoToken THEN [status |-> 401, userId |-> 0]
    ELSE IF jwtVerify(bearer, JWT_SECRET) # "ok" THEN [status |-> 401, userId |-> 0]
    ELSE IF bearer.userId \notin DOMAIN users THEN [status |-> 401, userId |-> 0]
    ELSE [status |-> 200, userId |-> bearer.userId]

\* authenticate: 401, or 200 with req.userId.
authenticate(bearer) ==
    IF bearer = NoToken THEN [status |-> 401, userId |-> 0]
    ELSE IF jwtVerify(bearer, JWT_SECRET) # "ok" THEN [status |-> 401, userId |-> 0]
    ELSE IF bearer.userId \notin DOMAIN users THEN [status |-> 401, userId |-> 0]
    ELSE IF ~users[bearer.userId].isActive THEN [status |-> 401, userId |-> 0]
    ELSE [status |-> 200, userId |-> bearer.userId]

\* user.updateLastActive()
updateLastActive(userId) == [users EXCEPT ![userId].lastActive = now]

\* ------------------------------------------------------------------ responses
\* What the client gets back, with what it sent: the route, the status, the
\* caller authenticate resolved, the token presented, the :id or ids of the
\* request, the count and the data of the body.
Response(op, status, userId, token, id, ids, count, data) ==
    [op |-> op, status |-> status, user |-> userId, token |-> token, id |-> id,
     ids |-> ids, count |-> count, data |-> data]

NoResponse == Response("none", 0, 0, NoToken, 0, {}, 0, Null)

\* A request stopped by authenticate: nothing is written.
Denied(op, bearer, id, ids) ==
    /\ res' = Response(op, 401, 0, bearer, id, ids, 0, Null)
    /\ UNCHANGED <<users, todos, nextTodoId>>

\* ------------------------------------------------------------------ todo documents
\* new Todo({...}): the schema's fields (description and tags carry no behaviour
\* of their own and are left out).
TodoDoc(userId, title, priority, dueDate, category) ==
    [user |-> userId, title |-> title, completed |-> FALSE, completedAt |-> Null,
     priority |-> priority, category |-> category, dueDate |-> dueDate,
     createdAt |-> now]

\* String.prototype.trim() on the strings the requests carry.
Trim(s) ==
    CASE s = " a " -> "a"
      [] s = "  " -> ""
      [] OTHER -> s

\* A hook that never clears completedAt when completed turns false.
PreSaveNeverClears(doc, modified) ==
    IF modified /\ doc.completed /\ doc.completedAt = Null
    THEN [doc EXCEPT !.completedAt = Date(now)]
    ELSE doc

\* A hook that does not ask isModified('completed') and restamps on every save.
PreSaveAlways(doc, modified) ==
    IF doc.completed
    THEN [doc EXCEPT !.completedAt = Date(now)]
    ELSE [doc EXCEPT !.completedAt = Null]

\* todoSchema.pre('save'): modified is this.isModified('completed').
PreSave(doc, modified) ==
    IF modified
    THEN IF doc.completed /\ doc.completedAt = Null
         THEN [doc EXCEPT !.completedAt = Date(now)]
         ELSE IF ~doc.completed
              THEN [doc EXCEPT !.completedAt = Null]
              ELSE doc
    ELSE doc

\* The schema validators save() runs on the paths it is given: title is
\* required, priority is one of the enum.
Validate(doc, paths) ==
    /\ ("title" \in paths => doc.title # "")
    /\ ("priority" \in paths => doc.priority \in PriorityEnum)

\* doc[key] = value for every key of updates.
Assign(doc, updates) ==
    [f \in DOMAIN doc |-> IF f \in DOMAIN updates THEN updates[f] ELSE doc[f]]

\* The paths an assignment marks modified: those whose value differs.
ModifiedPaths(doc, updates) ==
    {f \in DOMAIN updates : updates[f] # doc[f]}

\* Keeps the keys of body that are in allowed.
FilterKeys(body, allowed) ==
    [k \in (DOMAIN body \cap allowed) |-> body[k]]

\* An ownership check that only looks the resource up.
checkResourceExists(userId, id) ==
    IF id \notin DOMAIN todos THEN 404 ELSE 200

\* checkResourceOwnership(Todo): 404, 403 or 200 (req.resource attached).
checkResourceOwnership(userId, id) ==
    IF id \notin DOMAIN todos THEN 404
    ELSE IF todos[id].user # userId THEN 403
    ELSE 200

\* ------------------------------------------------------------------ todo routes
\* GET /api/todos/:id
GetTodo(bearer, id) ==
    LET a == authenticate(bearer) IN
    /\ UNCHANGED <<now, refreshSecret, issued, reqs, revoked>>
    /\ IF a.status # 200 THEN Denied("get", bearer, id, {})
       ELSE LET o == checkResourceOwnership(a.userId, id) IN
            /\ users' = updateLastActive(a.userId)
            /\ UNCHANGED <<todos, nextTodoId>>
            /\ res' = Response("get", o, a.userId, bearer, id, {}, 0,
                               IF o = 200 THEN <<todos[id]>> ELSE Null)

\* POST /api/todos
CreateTodo(bearer, body) ==
    LET a == authenticate(bearer) IN
    /\ UNCHANGED <<now, refreshSecret, issued, reqs, revoked>>
    /\ (a.status = 200 => nextTodoId <= MaxTodos)
    /\ IF a.status # 200 THEN Denied("create", bearer, 0, {})
       ELSE LET title == IF "title" \in DOMAIN body THEN body.title ELSE ""
                doc == TodoDoc(a.userId, Trim(title),
                               IF "priority" \in DOMAIN body /\ body.priority # ""
                                   THEN body.priority ELSE "medium",
                               IF "dueDate" \in DOMAIN body THEN body.dueDate ELSE Null,
                               IF "category" \in DOMAIN body /\ body.category # ""
                                   THEN body.category ELSE "general")
            IN
            /\ users' = updateLastActive(a.userId)
            /\ IF title = "" \/ Trim(title) = ""
               THEN /\ res' = Response("create", 400, a.userId, bearer, 0, {}, 0, Null)
                    /\ UNCHANGED <<todos, nextTodoId>>
               ELSE IF ~Validate(doc, DOMAIN doc)
               THEN /\ res' = Response("create", 400, a.userId, bearer, 0, {}, 0, Null)
                    /\ UNCHANGED <<todos, nextTodoId>>
               ELSE LET saved == PreSave(doc, FALSE) IN
                    /\ todos' = [i \in DOMAIN todos \cup {nextTodoId} |->
                                    IF i = nextTodoId THEN saved ELSE todos[i]]
                    /\ nextTodoId' = nextTodoId + 1
                    /\ res' = Response("create", 201, a.userId, bearer, nextTodoId, {}, 0, <<saved>>)

\* PUT /api/todos/:id
PutAllowedUpdates == {"title", "description", "completed", "priority", "dueDate", "category", "tags"}

PutUpdates(body) ==
    LET kept == FilterKeys(body, PutAllowedUpdates) IN
    [k \in DOMAIN kept |->
        IF k = "title" /\ kept[k] # "" THEN Trim(kept[k]) ELSE kept[k]]

PutTodo(bearer, id, body) ==
    LET a == authenticate(bearer) IN
    /\ UNCHANGED <<now, refreshSecret, issued, reqs, revoked, nextTodoId>>
    /\ IF a.status # 200 THEN Denied("put", bearer, id, {})
       ELSE LET o == checkResourceOwnership(a.userId, id)
                updates == PutUpdates(body) IN
            /\ users' = updateLastActive(a.userId)
            /\ IF o # 200
               THEN /\ res' = Response("put", o, a.userId, bearer, id, {}, 0, Null)
                    /\ UNCHANGED todos
               ELSE IF DOMAIN updates = {}
               THEN /\ res' = Response("put", 400, a.userId, bearer, id, {}, 0, Null)
                    /\ UNCHANGED todos
               ELSE LET paths == ModifiedPaths(todos[id], updates)
                        doc == Assign(todos[id], updates) IN
                    IF ~Validate(doc, paths)
                    THEN /\ res' = Response("put", 400, a.userId, bearer, id, {}, 0, Null)
                         /\ UNCHANGED todos
                    ELSE LET saved == PreSave(doc, "completed" \in paths) IN
                         /\ todos' = [todos EXCEPT ![id] = saved]
                         /\ res' = Response("put", 200, a.userId, bearer, id, {}, 0, <<saved>>)

\* PATCH /api/todos/:id/toggle
ToggleTodo(bearer, id) ==
    LET a == authenticate(bearer) IN
    /\ UNCHANGED <<now, refreshSecret, issued, reqs, revoked, nextTodoId>>
    /\ IF a.status # 200 THEN Denied("toggle", bearer, id, {})
       ELSE LET o == checkResourceOwnership(a.userId, id) IN
            /\ users' = updateLastActive(a.userId)
            /\ IF o # 200
               THEN /\ res' = Response("toggle", o, a.userId, bearer, id, {}, 0, Null)
                    /\ UNCHANGED todos
               ELSE LET doc == [todos[id] EXCEPT !.completed = ~@]
                        saved == PreSave(doc, TRUE) IN
                    /\ todos' = [todos EXCEPT ![id] = saved]
                    /\ res' = Response("toggle", 200, a.userId, bearer, id, {}, 0, <<saved>>)

\* DELETE /api/todos/:id
DeleteTodo(bearer, id) ==
    LET a == authenticate(bearer) IN
    /\ UNCHANGED <<now, refreshSecret, issued, reqs, revoked, nextTodoId>>
    /\ IF a.status # 200 THEN Denied("delete", bearer, id, {})
       ELSE LET o == checkResourceOwnership(a.userId, id) IN
            /\ users' = updateLastActive(a.userId)
            /\ res' = Response("delete", o, a.userId, bearer, id, {}, 0, Null)
            /\ IF o # 200
               THEN UNCHANGED todos
               ELSE todos' = [i \in DOMAIN todos \ {id} |-> todos[i]]

\* A bulk filter without the user condition.
BulkMatchAnyOwner(userId, ids) ==
    {i \in DOMAIN todos : i \in ids}

\* The documents a bulk filter { _id: { $in: ids }, user: req.userId } matches.
BulkMatch(userId, ids) ==
    {i \in DOMAIN todos : i \in ids /\ todos[i].user = userId}

\* DELETE /api/todos
BulkDelete(bearer, ids) ==
    LET a == authenticate(bearer) IN
    /\ UNCHANGED <<now, refreshSecret, issued, reqs, revoked, nextTodoId>>
    /\ IF a.status # 200 THEN Denied("bulkDelete", bearer, 0, ids)
       ELSE /\ users' = updateLastActive(a.userId)
            /\ IF ids = {}
               THEN /\ res' = Response("bulkDelete", 400, a.userId, bearer, 0, ids, 0, Null)
                    /\ UNCHANGED todos
               ELSE LET matched == BulkMatch(a.userId, ids) IN
                    /\ todos' = [i \in DOMAIN todos \ matched |-> todos[i]]
                    /\ res' = Response("bulkDelete", 200, a.userId, bearer, 0, ids,
                                       Cardinality(matched), Null)

\* PATCH /api/todos/bulk-update
BulkAllowsTitle == {"completed", "priority", "category", "title"}

BulkAllowedUpdates == {"completed", "priority", "category"}

BulkUpdate(bearer, ids, updates) ==
    LET a == authenticate(bearer) IN
    /\ UNCHANGED <<now, refreshSecret, issued, reqs, revoked, nextTodoId>>
    /\ IF a.status # 200 THEN Denied("bulkUpdate", bearer, 0, ids)
       ELSE LET filteredUpdates == FilterKeys(updates, BulkAllowedUpdates) IN
            /\ users' = updateLastActive(a.userId)
            /\ IF ids = {} \/ DOMAIN filteredUpdates = {}
               THEN /\ res' = Response("bulkUpdate", 400, a.userId, bearer, 0, ids, 0, Null)
                    /\ UNCHANGED todos
               ELSE LET matched == BulkMatch(a.userId, ids)
                        \* updateMany: a $set of filteredUpdates, no save hooks
                        modified == {i \in matched :
                                        Assign(todos[i], filteredUpdates) # todos[i]} IN
                    /\ todos' = [i \in DOMAIN todos |->
                                    IF i \in matched
                                    THEN Assign(todos[i], filteredUpdates)
                                    ELSE todos[i]]
                    /\ res' = Response("bulkUpdate", 200, a.userId, bearer, 0, ids,
                                       Cardinality(modified), Null)

\* Time passes.
Tick ==
    /\ now < MaxTime
    /\ now' = now + 1
    /\ res' = NoResponse
    /\ UNCHANGED <<users, todos, nextTodoId, refreshSecret, issued, reqs, revoked>>

\* ------------------------------------------------------------------ users
\* new User({...}) once saved; the token set starts empty.
UserDoc(username, email, firstName, password) ==
    [username |-> username, email |-> email, firstName |-> firstName,
     password |-> password, isActive |-> TRUE, refreshTokens |-> {},
     lastActive |-> now]

ReqIds == {1, 2}
\* A request in flight: its route, where it stands, the token it presented, the
\* user the middleware resolved, its body and the token pair it generated.
Req(route, pc, token, userId, body, new) ==
    [route |-> route, pc |-> pc, token |-> token, user |-> userId, body |-> body, new |-> new]

IdleReq == Req("idle", "idle", NoToken, 0, Null, Null)

\* The database after alice and bob have registered at time 0 and nothing else
\* has happened: each holds the token pair of the 201 response.
Registered ==
    [u \in UserIds |->
        [UserDoc(IF u = 1 THEN "alice" ELSE "bob",
                 IF u = 1 THEN "alice@x.com" ELSE "bob@x.com",
                 IF u = 1 THEN "Alice" ELSE "Bob",
                 "secret1")
         EXCEPT !.refreshTokens = {RefreshToken(u, 0)}]]

InitRegistered(secret) ==
    /\ now = 0
    /\ refreshSecret = secret
    /\ users = Registered
    /\ issued = UNION {{AccessToken(u, 0), RefreshToken(u, 0)} : u \in UserIds}
    /\ todos = << >>
    /\ nextTodoId = 1
    /\ reqs = [r \in ReqIds |-> IdleReq]
    /\ res = NoResponse
    /\ revoked = {}

\* ------------------------------------------------------------------ request inputs
CreateBodies == <<[title |-> " a "], [title |-> "a", priority |-> "high", category |-> "work"],
                  [title |-> "  "], [title |-> "a", priority |-> "urgent"]>>

PutBodies == <<[completed |-> TRUE], [completed |-> FALSE], [priority |-> "low"],
               [category |-> "work", completed |-> TRUE],
               [user |-> 2, completedAt |-> Date(0)],
               [priority |-> "urgent"]>>

BulkBodies == <<[completed |-> TRUE], [completed |-> FALSE], [priority |-> "low"],
                [category |-> "work", title |-> "x", user |-> 2],
                [title |-> "x"]>>

Owners == {AccessToken(u, 0) : u \in UserIds}

\* ------------------------------------------------------------------ the todo API
\* Both users work on the todo collection within one second.
Init == InitRegistered(JWT_SECRET)

Next ==
    \/ \E b \in Owners, i \in TodoIds : GetTodo(b, i)
    \/ \E b \in Owners, k \in 1..Len(CreateBodies) : CreateTodo(b, CreateBodies[k])
    \/ \E b \in Owners, i \in TodoIds, k \in 1..Len(PutBodies) : PutTodo(b, i, PutBodies[k])
    \/ \E b \in Owners, i \in TodoIds : ToggleTodo(b, i)
    \/ \E b \in Owners, i \in TodoIds : DeleteTodo(b, i)
    \/ \E b \in Owners, ids \in SUBSET TodoIds : BulkDelete(b, ids)
    \/ \E b \in Owners, ids \in SUBSET TodoIds, k \in 1..Len(BulkBodies) :
          BulkUpdate(b, ids, BulkBodies[k])

Spec == Init /\ [][Next]_vars

\* ------------------------------------------------------------------ a todo's life
\* One user works on the todo collection while time passes.
Alice == AccessToken(1, 0)

NextLife ==
    \/ \E k \in 1..Len(CreateBodies) : CreateTodo(Alice, CreateBodies[k])
    \/ \E i \in TodoIds, k \in 1..Len(PutBodies) : PutTodo(Alice, i, PutBodies[k])
    \/ \E i \in TodoIds : ToggleTodo(Alice, i)
    \/ \E i \in TodoIds : DeleteTodo(Alice, i)
    \/ \E ids \in SUBSET TodoIds, k \in 1..Len(BulkBodies) :
          BulkUpdate(Alice, ids, BulkBodies[k])
    \/ Tick

SpecLife == Init /\ [][NextLife]_vars

\* ------------------------------------------------------------------ the User model
\* user.addRefreshToken(token), user.removeRefreshToken(token),
\* user.removeAllRefreshTokens(): single writes to the user's token set.
addRefreshToken(userId, token) ==
    [users EXCEPT ![userId].refreshTokens = @ \cup {token}]

removeRefreshToken(userId, token) ==
    [users EXCEPT ![userId].refreshTokens = @ \ {token}]

removeAllRefreshTokens(userId) ==
    [users EXCEPT ![userId].refreshTokens = {}]

\* User.findByCredentials(username, password): the users it can return.
findByCredentials(username, password) ==
    {u \in DOMAIN users : users[u].username = username /\ users[u].password = password}

\* The unique indexes on username and email: the documents an insert or an
\* update of `self` to these values collides with (E11000).
DuplicateKey(self, username, email) ==
    {u \in DOMAIN users \ {self} :
        users[u].username = username \/ users[u].email = email}

\* ------------------------------------------------------------------ auth routes
AuthResponse(op, status, userId, token, data) ==
    Response(op, status, userId, token, 0, {}, 0, data)

Idle(r) == reqs[r].pc = "idle"

\* The response goes out and the request is over.
Respond(r, response) ==
    /\ res' = response
    /\ reqs' = [reqs EXCEPT ![r] = IdleReq]

\* The request goes on to its next database round trip.
Continue(r, req) ==
    /\ res' = NoResponse
    /\ reqs' = [reqs EXCEPT ![r] = req]

\* A response before the first await of the handler: the slot stays free.
Answer(response) ==
    /\ res' = response
    /\ UNCHANGED reqs

MaxUsers == 2

\* POST /api/auth/register: validation and User.findOne({ $or: [email, username] })
RegisterStart(r, body) ==
    /\ Idle(r)
    /\ Cardinality(DOMAIN users) + Cardinality({q \in ReqIds : reqs[q].route = "register"})
          < MaxUsers
    /\ UNCHANGED <<users, todos, nextTodoId, now, refreshSecret, issued, revoked>>
    /\ IF body.username = "" \/ body.email = "" \/ body.password = ""
       THEN Answer(AuthResponse("register", 400, 0, NoToken, Null))
       ELSE IF \E u \in DOMAIN users :
                  users[u].email = body.email \/ users[u].username = body.username
       THEN Answer(AuthResponse("register", 400, 0, NoToken, Null))
       ELSE Continue(r, Req("register", "save", NoToken, 0, body, Null))

\* await user.save(), then generateTokens(user._id)
RegisterSave(r) ==
    /\ reqs[r].route = "register" /\ reqs[r].pc = "save"
    /\ UNCHANGED <<todos, nextTodoId, now, refreshSecret, issued, revoked>>
    /\ LET body == reqs[r].body
           id == Cardinality(DOMAIN users) + 1 IN
       IF DuplicateKey(0, body.username, body.email) # {}
       THEN \* E11000 is no ValidationError: the catch answers 500
            /\ Respond(r, AuthResponse("register", 500, 0, NoToken, Null))
            /\ UNCHANGED users
       ELSE /\ users' = [u \in DOMAIN users \cup {id} |->
                            IF u = id
                            THEN UserDoc(body.username, body.email, body.firstName,
                                         body.password)
                            ELSE users[u]]
            /\ Continue(r, Req("register", "addToken", NoToken, id, body,
                               <<generateTokens(id)>>))

\* await user.addRefreshToken(refreshToken), then the 201
RegisterAddToken(r) ==
    /\ reqs[r].route = "register" /\ reqs[r].pc = "addToken"
    /\ UNCHANGED <<todos, nextTodoId, now, refreshSecret, revoked>>
    /\ LET new == reqs[r].new[1] IN
       /\ users' = addRefreshToken(reqs[r].user, new.refreshToken)
       /\ issued' = issued \cup {new.accessToken, new.refreshToken}
       /\ Respond(r, AuthResponse("register", 201, reqs[r].user, NoToken, reqs[r].new))

\* POST /api/auth/login: User.findByCredentials, then generateTokens
LoginStart(r, body) ==
    /\ Idle(r)
    /\ UNCHANGED <<users, todos, nextTodoId, now, refreshSecret, issued, revoked>>
    /\ IF body.username = "" \/ body.password = ""
       THEN Answer(AuthResponse("login", 400, 0, NoToken, Null))
       ELSE IF findByCredentials(body.username, body.password) = {}
       THEN Answer(AuthResponse("login", 401, 0, NoToken, Null))
       ELSE \E u \in findByCredentials(body.username, body.password) :
               Continue(r, Req("login", "addToken", NoToken, u, body,
                               <<generateTokens(u)>>))

\* await user.addRefreshToken(refreshToken)
LoginAddToken(r) ==
    /\ reqs[r].route = "login" /\ reqs[r].pc = "addToken"
    /\ UNCHANGED <<todos, nextTodoId, now, refreshSecret, issued, revoked>>
    /\ users' = addRefreshToken(reqs[r].user, reqs[r].new[1].refreshToken)
    /\ Continue(r, [reqs[r] EXCEPT !.pc = "lastActive"])

\* await user.updateLastActive(), then the 200
LoginLastActive(r) ==
    /\ reqs[r].route = "login" /\ reqs[r].pc = "lastActive"
    /\ UNCHANGED <<todos, nextTodoId, now, refreshSecret, revoked>>
    /\ LET new == reqs[r].new[1] IN
       /\ users' = updateLastActive(reqs[r].user)
       /\ issued' = issued \cup {new.accessToken, new.refreshToken}
       /\ Respond(r, AuthResponse("login", 200, reqs[r].user, NoToken, reqs[r].new))

\* A validation that does not look the token up in the user's token set.
validateSignatureOnly(refreshToken) ==
    IF refreshToken = NoToken THEN 401
    ELSE IF jwtVerify(refreshToken, refreshSecret) # "ok" THEN 401
    ELSE IF refreshToken.type # "refresh" THEN 401
    ELSE IF refreshToken.userId \notin DOMAIN users THEN 401
    ELSE IF ~users[refreshToken.userId].isActive THEN 401
    ELSE 200

\* validateRefreshToken: 401, or 200 with req.user = the token's user.
validateRefreshToken(refreshToken) ==
    IF refreshToken = NoToken THEN 401
    ELSE IF jwtVerify(refreshToken, refreshSecret) # "ok" THEN 401
    ELSE IF refreshToken.type # "refresh" THEN 401
    ELSE IF refreshToken.userId \notin DOMAIN users THEN 401
    ELSE IF ~users[refreshToken.userId].isActive THEN 401
    ELSE IF refreshToken \notin users[refreshToken.userId].refreshTokens THEN 401
    ELSE 200

\* POST /api/auth/refresh: validateRefreshToken, then generateTokens
RefreshStart(r, refreshToken) ==
    /\ Idle(r)
    /\ UNCHANGED <<users, todos, nextTodoId, now, refreshSecret, issued, revoked>>
    /\ IF validateRefreshToken(refreshToken) # 200
       THEN Answer(AuthResponse("refresh", 401, 0, refreshToken, Null))
       ELSE Continue(r, Req("refresh", "remove", refreshToken, refreshToken.userId, Null,
                            <<generateTokens(refreshToken.userId)>>))

\* A rotation whose first write stores the new token.
RefreshAddFirst(r) ==
    /\ reqs[r].route = "refresh" /\ reqs[r].pc = "remove"
    /\ UNCHANGED <<todos, nextTodoId, now, refreshSecret, issued, revoked>>
    /\ users' = addRefreshToken(reqs[r].user, reqs[r].new[1].refreshToken)
    /\ Continue(r, [reqs[r] EXCEPT !.pc = "add"])

\* await user.removeRefreshToken(oldRefreshToken)
RefreshRemove(r) ==
    /\ reqs[r].route = "refresh" /\ reqs[r].pc = "remove"
    /\ UNCHANGED <<todos, nextTodoId, now, refreshSecret, issued, revoked>>
    /\ users' = removeRefreshToken(reqs[r].user, reqs[r].token)
    /\ Continue(r, [reqs[r] EXCEPT !.pc = "add"])

\* await user.addRefreshToken(refreshToken), then the 200
RefreshAdd(r) ==
    /\ reqs[r].route = "refresh" /\ reqs[r].pc = "add"
    /\ UNCHANGED <<todos, nextTodoId, now, refreshSecret, revoked>>
    /\ LET new == reqs[r].new[1] IN
       /\ users' = addRefreshToken(reqs[r].user, new.refreshToken)
       /\ issued' = issued \cup {new.accessToken, new.refreshToken}
       /\ Respond(r, AuthResponse("refresh", 200, reqs[r].user, reqs[r].token, reqs[r].new))

\* POST /api/auth/logout: authenticate, then the handler up to its await
LogoutStart(r, bearer, refreshToken) ==
    LET a == authenticate(bearer) IN
    /\ Idle(r)
    /\ UNCHANGED <<todos, nextTodoId, now, refreshSecret, issued, revoked>>
    /\ IF a.status # 200
       THEN /\ Answer(AuthResponse("logout", 401, 0, bearer, Null))
            /\ UNCHANGED users
       ELSE /\ users' = updateLastActive(a.userId)
            /\ IF refreshToken = NoToken
               THEN Answer(AuthResponse("logout", 200, a.userId, bearer, Null))
               ELSE Continue(r, Req("logout", "remove", bearer, a.userId,
                                    <<refreshToken>>, Null))

\* await req.user.removeRefreshToken(refreshToken), then the 200
LogoutRemove(r) ==
    /\ reqs[r].route = "logout" /\ reqs[r].pc = "remove"
    /\ UNCHANGED <<todos, nextTodoId, now, refreshSecret, issued, revoked>>
    /\ users' = removeRefreshToken(reqs[r].user, reqs[r].body[1])
    /\ Respond(r, AuthResponse("logout", 200, reqs[r].user, reqs[r].token, reqs[r].body))

\* The refresh tokens of a user that clients hold.
HandedOut(userId) ==
    {t \in issued : t.type = "refresh" /\ t.userId = userId}

\* POST /api/auth/logout-all: authenticate
LogoutAllStart(r, bearer) ==
    LET a == authenticate(bearer) IN
    /\ Idle(r)
    /\ UNCHANGED <<todos, nextTodoId, now, refreshSecret, issued, revoked>>
    /\ IF a.status # 200
       THEN /\ Answer(AuthResponse("logoutAll", 401, 0, bearer, Null))
            /\ UNCHANGED users
       ELSE /\ users' = updateLastActive(a.userId)
            /\ Continue(r, Req("logoutAll", "removeAll", bearer, a.userId, Null, Null))

\* await req.user.removeAllRefreshTokens(), then the 200
LogoutAllRemove(r) ==
    /\ reqs[r].route = "logoutAll" /\ reqs[r].pc = "removeAll"
    /\ UNCHANGED <<todos, nextTodoId, now, refreshSecret, issued>>
    /\ users' = removeAllRefreshTokens(reqs[r].user)
    /\ revoked' = revoked \cup HandedOut(reqs[r].user)
    /\ Respond(r, AuthResponse("logoutAll", 200, reqs[r].user, reqs[r].token, Null))

\* PUT /api/auth/change-password: authenticate and the body check
ChangePasswordStart(r, bearer, body) ==
    LET a == authenticate(bearer) IN
    /\ Idle(r)
    /\ UNCHANGED <<todos, nextTodoId, now, refreshSecret, issued, revoked>>
    /\ IF a.status # 200
       THEN /\ Answer(AuthResponse("changePassword", 401, 0, bearer, Null))
            /\ UNCHANGED users
       ELSE /\ users' = updateLastActive(a.userId)
            /\ IF body.currentPassword = "" \/ body.newPassword = ""
               THEN Answer(AuthResponse("changePassword", 400, a.userId, bearer, Null))
               ELSE Continue(r, Req("changePassword", "load", bearer, a.userId, body, Null))

\* await User.findById(req.user._id).select('+password'), comparePassword
ChangePasswordLoad(r) ==
    /\ reqs[r].route = "changePassword" /\ reqs[r].pc = "load"
    /\ UNCHANGED <<users, todos, nextTodoId, now, refreshSecret, issued, revoked>>
    /\ IF users[reqs[r].user].password # reqs[r].body.currentPassword
       THEN Respond(r, AuthResponse("changePassword", 400, reqs[r].user, reqs[r].token, Null))
       ELSE Continue(r, [reqs[r] EXCEPT !.pc = "save"])

\* user.password = newPassword; await user.save()
ChangePasswordSave(r) ==
    /\ reqs[r].route = "changePassword" /\ reqs[r].pc = "save"
    /\ UNCHANGED <<todos, nextTodoId, now, refreshSecret, issued, revoked>>
    /\ users' = [users EXCEPT ![reqs[r].user].password = reqs[r].body.newPassword]
    /\ Continue(r, [reqs[r] EXCEPT !.pc = "removeAll"])

\* await user.removeAllRefreshTokens(), then the 200
ChangePasswordRemove(r) ==
    /\ reqs[r].route = "changePassword" /\ reqs[r].pc = "removeAll"
    /\ UNCHANGED <<todos, nextTodoId, now, refreshSecret, issued>>
    /\ users' = removeAllRefreshTokens(reqs[r].user)
    /\ revoked' = revoked \cup HandedOut(reqs[r].user)
    /\ Respond(r, AuthResponse("changePassword", 200, reqs[r].user, reqs[r].token, Null))

\* GET /api/auth/me
Profile(userId) ==
    [username |-> users[userId].username, email |-> users[userId].email,
     firstName |-> users[userId].firstName]

GetMe(bearer) ==
    LET a == authenticate(bearer) IN
    /\ UNCHANGED <<todos, nextTodoId, now, refreshSecret, issued, revoked>>
    /\ IF a.status # 200
       THEN /\ Answer(AuthResponse("getMe", 401, 0, bearer, Null))
            /\ UNCHANGED users
       ELSE /\ users' = updateLastActive(a.userId)
            /\ Answer(AuthResponse("getMe", 200, a.userId, bearer, <<Profile(a.userId)>>))

\* PUT /api/auth/me: authenticate, the allowedUpdates filter, req.user[key] = value
MeAllowedUpdates == {"firstName", "lastName", "email", "preferences"}

PutMeStart(r, bearer, body) ==
    LET a == authenticate(bearer) IN
    /\ Idle(r)
    /\ UNCHANGED <<todos, nextTodoId, now, refreshSecret, issued, revoked>>
    /\ IF a.status # 200
       THEN /\ Answer(AuthResponse("putMe", 401, 0, bearer, Null))
            /\ UNCHANGED users
       ELSE LET updates == FilterKeys(body, MeAllowedUpdates) IN
            /\ users' = updateLastActive(a.userId)
            /\ IF DOMAIN updates = {}
               THEN Answer(AuthResponse("putMe", 400, a.userId, bearer, Null))
               ELSE \* save() will write the paths the assignment modified
                    Continue(r, Req("putMe", "save", bearer, a.userId,
                                    [k \in ModifiedPaths(users[a.userId], updates) |->
                                        updates[k]],
                                    Null))

\* await req.user.save(): E11000 on the email index is answered 400
PutMeSave(r) ==
    /\ reqs[r].route = "putMe" /\ reqs[r].pc = "save"
    /\ UNCHANGED <<todos, nextTodoId, now, refreshSecret, issued, revoked>>
    /\ LET u == reqs[r].user
           updates == reqs[r].body IN
       IF "email" \in DOMAIN updates /\ DuplicateKey(u, users[u].username, updates.email) # {}
       THEN /\ Respond(r, AuthResponse("putMe", 400, u, reqs[r].token, Null))
            /\ UNCHANGED users
       ELSE /\ users' = [users EXCEPT ![u] = Assign(users[u], updates)]
            /\ Respond(r, AuthResponse("putMe", 200, u, reqs[r].token,
                                       <<[username |-> users[u].username,
                                          email |-> users'[u].email,
                                          firstName |-> users'[u].firstName]>>))

\* ------------------------------------------------------------------ sessions
\* alice's sessions: logins, refreshes and revocations interleave while time
\* passes.
LoginBodies == <<[username |-> "alice", password |-> "secret1"],
                 [username |-> "alice", password |-> "wrong"],
                 [username |-> "", password |-> "secret1"]>>

PasswordBodies == <<[currentPassword |-> "secret1", newPassword |-> "secret2"],
                    [currentPassword |-> "wrong", newPassword |-> "secret2"],
                    [currentPassword |-> "", newPassword |-> "secret2"]>>

RefreshInputs == HandedOut(1) \cup {NoToken, AccessToken(1, 0)}

NextAuth ==
    \/ \E r \in ReqIds, k \in 1..Len(LoginBodies) : LoginStart(r, LoginBodies[k])
    \/ \E r \in ReqIds : LoginAddToken(r)
    \/ \E r \in ReqIds : LoginLastActive(r)
    \/ \E r \in ReqIds, t \in RefreshInputs : RefreshStart(r, t)
    \/ \E r \in ReqIds : RefreshRemove(r)
    \/ \E r \in ReqIds : RefreshAdd(r)
    \/ \E r \in ReqIds, t \in HandedOut(1) \cup {NoToken} : LogoutStart(r, Alice, t)
    \/ \E r \in ReqIds : LogoutRemove(r)
    \/ \E r \in ReqIds : LogoutAllStart(r, Alice)
    \/ \E r \in ReqIds : LogoutAllRemove(r)
    \/ \E r \in ReqIds, k \in 1..Len(PasswordBodies) :
          ChangePasswordStart(r, Alice, PasswordBodies[k])
    \/ \E r \in ReqIds : ChangePasswordLoad(r)
    \/ \E r \in ReqIds : ChangePasswordSave(r)
    \/ \E r \in ReqIds : ChangePasswordRemove(r)
    \/ Tick

\* JWT_REFRESH_SECRET may or may not be configured.
InitAuth == \E secret \in {JWT_SECRET, JWT_REFRESH_SECRET} : InitRegistered(secret)

SpecAuth == InitAuth /\ [][NextAuth]_vars

\* ------------------------------------------------------------------ registration
\* An empty database: registrations and profile updates interleave.
InitEmpty ==
    /\ now = 0
    /\ refreshSecret = JWT_SECRET
    /\ users = << >>
    /\ issued = {}
    /\ todos = << >>
    /\ nextTodoId = 1
    /\ reqs = [r \in ReqIds |-> IdleReq]
    /\ res = NoResponse
    /\ revoked = {}

RegisterBodies ==
    <<[username |-> "alice", email |-> "alice@x.com", firstName |-> "Alice", password |-> "secret1"],
      [username |-> "alice", email |-> "bob@x.com", firstName |-> "Alice", password |-> "secret1"],
      [username |-> "bob", email |-> "alice@x.com", firstName |-> "Bob", password |-> "secret1"],
      [username |-> "bob", email |-> "bob@x.com", firstName |-> "Bob", password |-> "secret1"],
      [username |-> "bob", email |-> "", firstName |-> "Bob", password |-> "secret1"]>>

MeBodies == <<[email |-> "alice@x.com"], [email |-> "bob@x.com", firstName |-> "B"],
              [username |-> "alice"]>>

AccessTokens == {t \in issued : t.type = "access"}

NextReg ==
    \/ \E r \in ReqIds, k \in 1..Len(RegisterBodies) : RegisterStart(r, RegisterBodies[k])
    \/ \E r \in ReqIds : RegisterSave(r)
    \/ \E r \in ReqIds : RegisterAddToken(r)
    \/ \E b \in AccessTokens : GetMe(b)
    \/ \E r \in ReqIds, b \in AccessTokens, k \in 1..Len(MeBodies) : PutMeStart(r, b, MeBodies[k])
    \/ \E r \in ReqIds : PutMeSave(r)

SpecReg == InitEmpty /\ [][NextReg]_vars

\* ------------------------------------------------------------------ the gate
\* Every route behind authenticate, called with and without good tokens. The
\* database at time AccessTTL: alice registered at time 0 and logged in again
\* at time AccessTTL - 1, when bob registered and created a todo; the operator
\* of the database has since set bob's isActive to false, and carol's document
\* is gone from the collection while her token is still around.
Recent == AccessTTL - 1

AliceOld == AccessToken(1, 0)
AliceNow == AccessToken(1, Recent)
Bob == AccessToken(2, Recent)
Carol == AccessToken(3, Recent)

InitGate ==
    /\ now = AccessTTL
    /\ refreshSecret = JWT_SECRET
    /\ users = [u \in UserIds |->
                  IF u = 1
                  THEN [Registered[1] EXCEPT
                           !.refreshTokens = {RefreshToken(1, 0), RefreshToken(1, Recent)},
                           !.lastActive = Recent]
                  ELSE [Registered[2] EXCEPT
                           !.refreshTokens = {RefreshToken(2, Recent)},
                           !.lastActive = Recent,
                           !.isActive = FALSE]]
    /\ issued = {AliceOld, RefreshToken(1, 0), AliceNow, RefreshToken(1, Recent),
                 Bob, RefreshToken(2, Recent)}
    /\ todos = [i \in {1} |->
                  [user |-> 2, title |-> "a", completed |-> FALSE, completedAt |-> Null,
                   priority |-> "medium", category |-> "general", dueDate |-> Null,
                   createdAt |-> Recent]]
    /\ nextTodoId = 2
    /\ reqs = [r \in ReqIds |-> IdleReq]
    /\ res = NoResponse
    /\ revoked = {}

GateBearers == {NoToken, ForgedToken(1), AliceOld, AliceNow, Bob, Carol}

NextGate ==
    \/ \E b \in GateBearers, i \in TodoIds : GetTodo(b, i)
    \/ \E b \in GateBearers : CreateTodo(b, CreateBodies[1])
    \/ \E b \in GateBearers, i \in TodoIds : PutTodo(b, i, PutBodies[1])
    \/ \E b \in GateBearers, i \in TodoIds : ToggleTodo(b, i)
    \/ \E b \in GateBearers, i \in TodoIds : DeleteTodo(b, i)
    \/ \E b \in GateBearers : BulkDelete(b, TodoIds)
    \/ \E b \in GateBearers : BulkUpdate(b, TodoIds, BulkBodies[3])
    \/ \E b \in GateBearers : GetMe(b)
    \/ \E b \in GateBearers : PutMeStart(1, b, MeBodies[2])
    \/ PutMeSave(1)
    \/ \E b \in GateBearers : LogoutStart(1, b, RefreshToken(1, Recent))
    \/ LogoutRemove(1)
    \/ \E b \in GateBearers : LogoutAllStart(1, b)
    \/ LogoutAllRemove(1)
    \/ \E b \in GateBearers : ChangePasswordStart(1, b, PasswordBodies[1])
    \/ ChangePasswordLoad(1)
    \/ ChangePasswordSave(1)
    \/ ChangePasswordRemove(1)

SpecGate == InitGate /\ [][NextGate]_vars

\* ------------------------------------------------------------------ properties
SingleOps == {"get", "put", "toggle", "delete"}

\* C1: every stored todo has completed = true exactly when completedAt is
\* non-null, after any sequence of create, PUT, toggle and bulk-update.
C1_CompletedIffCompletedAt ==
    \A i \in DOMAIN todos : (todos[i].completed = TRUE) <=> (todos[i].completedAt # Null)

\* C4: GET, PUT, toggle and DELETE on /api/todos/:id answer 404 when the id
\* resolves to no todo, 403 when the todo is owned by somebody else (and then
\* return, change and delete nothing), and act only for the owner.
C4_OwnershipStep ==
    (res'.op \in SingleOps /\ res'.status # 401) =>
        /\ (res'.id \notin DOMAIN todos => res'.status = 404 /\ todos' = todos)
        /\ (res'.id \in DOMAIN todos /\ todos[res'.id].user # res'.user =>
                res'.status = 403 /\ todos' = todos /\ res'.data = Null)
        /\ (todos' # todos \/ res'.data # Null =>
                res'.id \in DOMAIN todos /\ todos[res'.id].user = res'.user)

C4_Ownership == [][C4_OwnershipStep]_vars

\* A toggle of somebody else's todo was answered 403 and the todo is still there.
C4_Witness ==
    /\ res.op = "toggle" /\ res.status = 403
    /\ res.id \in DOMAIN todos
    /\ todos[res.id].user # res.user
    /\ ~todos[res.id].completed

\* C5: bulk delete removes exactly the listed todos the caller owns, reports
\* their number, leaves every other todo as it was, and answers 200 also when
\* the list names only other users' todos (deletedCount 0).
C5_BulkDeleteStep ==
    (res'.op = "bulkDelete" /\ res'.status # 401 /\ res'.ids # {}) =>
        LET mine == {i \in DOMAIN todos : i \in res'.ids /\ todos[i].user = res'.user} IN
        /\ res'.status = 200
        /\ DOMAIN todos' = DOMAIN todos \ mine
        /\ res'.count = Cardinality(DOMAIN todos \ DOMAIN todos')
        /\ \A i \in DOMAIN todos' : todos'[i] = todos[i]
        /\ (mine = {} => res'.count = 0)

C5_BulkDelete == [][C5_BulkDeleteStep]_vars

\* A bulk delete listing one own and one foreign todo removed the own one only.
C5_Witness ==
    /\ res.op = "bulkDelete" /\ res.status = 200 /\ res.count = 1
    /\ \E i \in res.ids : i \in DOMAIN todos /\ todos[i].user # res.user
    /\ \E i \in res.ids : i \notin DOMAIN todos /\ i < nextTodoId

\* C6: bulk update writes only completed, priority and category, only on the
\* listed todos the caller owns, and reports the number of todos it changed.
C6_BulkUpdateStep ==
    (res'.op = "bulkUpdate" /\ res'.status = 200) =>
        /\ DOMAIN todos' = DOMAIN todos
        /\ \A i \in DOMAIN todos :
              /\ (i \notin res'.ids \/ todos[i].user # res'.user => todos'[i] = todos[i])
              /\ \A f \in DOMAIN todos[i] \ {"completed", "priority", "category"} :
                    todos'[i][f] = todos[i][f]
        /\ res'.count = Cardinality({i \in DOMAIN todos : todos'[i] # todos[i]})

C7_ToggleStep ==
    (res'.op = "toggle" /\ res'.status = 200) =>
        LET old == todos[res'.id]
            new == todos'[res'.id] IN
        /\ (~old.completed /\ old.completedAt = Null =>
                new.completed /\ new.completedAt = Date(now))
        /\ (old.completed /\ old.completedAt # Null =>
                ~new.completed /\ new.completedAt = Null)
        /\ res'.data = <<new>>

\* POST /api/todos stores the new todo Pending: completed false, completedAt null.
C7_CreateStep ==
    (res'.op = "create" /\ res'.status = 201) =>
        /\ res'.id \notin DOMAIN todos
        /\ ~todos'[res'.id].completed
        /\ todos'[res'.id].completedAt = Null

C7_Toggle == [][C7_ToggleStep /\ C7_CreateStep]_vars

\* A todo created earlier was toggled to completed now.
C7_Witness ==
    /\ res.op = "toggle" /\ res.status = 200
    /\ res.id \in DOMAIN todos
    /\ todos[res.id].completed
    /\ todos[res.id].completedAt = Date(now)
    /\ todos[res.id].createdAt < now

\* C8: a write that leaves a todo's completed flag as it was leaves its
\* completedAt as it was.
C8_FrameStep ==
    \A i \in DOMAIN todos \cap DOMAIN todos' :
        todos'[i].completed = todos[i].completed =>
            todos'[i].completedAt = todos[i].completedAt

C8_CompletedAtFrame == [][C8_FrameStep]_vars

\* A PUT of the priority reached a todo completed at an earlier time.
C8_Witness ==
    /\ res.op = "put" /\ res.status = 200
    /\ res.id \in DOMAIN todos
    /\ todos[res.id].priority = "low"
    /\ todos[res.id].completed
    /\ todos[res.id].completedAt # Null
    /\ todos[res.id].completedAt # Date(now)
    /\ res.data = <<todos[res.id]>>

\* The token is in the active refresh-token set of the user it names.
Active(token) ==
    /\ token.userId \in DOMAIN users
    /\ token \in users[token.userId].refreshTokens

\* C2: a refresh token that is not in its user's active set (logout removed it,
\* or an earlier refresh rotated it out) gets 401 from POST /api/auth/refresh,
\* which then hands out no token pair and never reaches the handler. A
\* refresh request arrives in a step that either occupies a free slot (the
\* handler is entered) or answers with reqs unchanged (the middleware answered).
C2_RefreshStep ==
    /\ \A r \in ReqIds :
          (Idle(r) /\ reqs'[r].route = "refresh") => Active(reqs'[r].token)
    /\ (res'.op = "refresh" /\ reqs' = reqs /\ ~Active(res'.token)) =>
          /\ res'.status = 401
          /\ res'.data = Null
          /\ issued' = issued
          /\ users' = users

C2_RemovedTokenRejected == [][C2_RefreshStep]_vars

\* A handed-out refresh token with a good signature, not expired, of an active
\* user, was answered 401 because it is no longer in the user's set.
C2_Witness ==
    /\ res.op = "refresh" /\ res.status = 401
    /\ res.token \in issued
    /\ res.token.type = "refresh"
    /\ jwtVerify(res.token, refreshSecret) = "ok"
    /\ users[res.token.userId].isActive
    /\ ~Active(res.token)
    /\ users[res.token.userId].refreshTokens # {}

\* C3: after logout-all or change-password answered 200, no refresh token
\* handed out to that user before the answer is exchanged by POST
\* /api/auth/refresh.
C3_RevokedStep ==
    (res'.op = "refresh" /\ res'.status = 200) => res'.token \notin revoked

C3_RevokedNeverAccepted == [][C3_RevokedStep]_vars

\* The routes behind authenticate.
GatedOps == {"get", "create", "put", "toggle", "delete", "bulkDelete", "bulkUpdate",
             "getMe", "putMe", "logout", "logoutAll", "changePassword"}

\* No bearer token, a bad signature, an expired token, or the token of a user
\* who is missing or deactivated.
BadBearer(token) ==
    \/ token = NoToken
    \/ token.key # JWT_SECRET
    \/ now >= token.exp
    \/ token.userId \notin DOMAIN users
    \/ ~users[token.userId].isActive

\* C10: a request to a route behind authenticate that comes with no token, an
\* invalid or expired one, or one of a missing or deactivated user is answered
\* 401 by the middleware, enters no handler and changes no todo, no user
\* document and no token set.
C10_GateStep ==
    /\ (res'.op \in GatedOps /\ reqs' = reqs /\ BadBearer(res'.token)) =>
          /\ res'.status = 401
          /\ res'.data = Null
          /\ todos' = todos /\ nextTodoId' = nextTodoId
          /\ users' = users
          /\ issued' = issued
    /\ \A r \in ReqIds :
          (Idle(r) /\ reqs'[r].route \in GatedOps) => ~BadBearer(reqs'[r].token)

C10_Gate == [][C10_GateStep]_vars

\* bob, deactivated, tried to delete his own todo and got 401; the todo is there.
C10_Witness ==
    /\ res.op = "delete" /\ res.status = 401
    /\ res.token = Bob
    /\ ~users[2].isActive
    /\ res.id \in DOMAIN todos
    /\ todos[res.id].user = 2

\* UNIQUE: no two user documents share a username or an email.
UniqueUsers(us) ==
    \A u, v \in DOMAIN us :
        u # v => us[u].username # us[v].username /\ us[u].email # us[v].email

\* C9: no two users share a username or an email, and a registration whose
\* username or email is taken is answered 400 and creates no user, also when
\* it interleaves with another registration or a profile update.
C9_RegisterStep ==
    /\ UniqueUsers(users')
    /\ \A r \in ReqIds :
          (/\ reqs[r].route = "register" /\ reqs[r].pc = "save"
           /\ reqs'[r] # reqs[r]
           /\ DuplicateKey(0, reqs[r].body.username, reqs[r].body.email) # {}) =>
              res'.op = "register" /\ res'.status = 400 /\ users' = users

C9_UniqueRegistration == [][C9_RegisterStep]_vars

\* ------------------------------------------------------------------ priorities
\* Alice sends every priority a client can put in a body to the three routes
\* that write the field.
PriorityInputs == {"low", "medium", "high", "urgent", ""}

NextPriority ==
    \/ \E p \in PriorityInputs : CreateTodo(Alice, [title |-> "a", priority |-> p])
    \/ \E i \in TodoIds, p \in PriorityInputs : PutTodo(Alice, i, [priority |-> p])
    \/ \E ids \in SUBSET TodoIds, p \in PriorityInputs :
          BulkUpdate(Alice, ids, [priority |-> p])
    \/ \E i \in TodoIds : DeleteTodo(Alice, i)

SpecPriority == Init /\ [][NextPriority]_vars

\* C11: every stored todo's priority is one of low, medium, high, whatever
\* priority values create, PUT and bulk-update requests carry.
C11_PriorityInEnum ==
    \A i \in DOMAIN todos : todos[i].priority \in PriorityEnum

\* ------------------------------------------------------------------ the list operation
\* A query-string value as its characters; << >> is an absent parameter.
DigitVal ==
    [ch \in {"0", "1", "2", "3", "4", "5", "6", "7", "8", "9"} |->
        CASE ch = "0" -> 0 [] ch = "1" -> 1 [] ch = "2" -> 2 [] ch = "3" -> 3
          [] ch = "4" -> 4 [] ch = "5" -> 5 [] ch = "6" -> 6 [] ch = "7" -> 7
          [] ch = "8" -> 8 [] OTHER -> 9]

\* The value of the leading digits of s; nan when s starts with none.
RECURSIVE ParseDigits(_, _, _)
ParseDigits(s, acc, seen) ==
    IF s # << >> /\ s[1] \in DOMAIN DigitVal
    THEN ParseDigits(Tail(s), 10 * acc + DigitVal[s[1]], TRUE)
    ELSE [nan |-> ~seen, n |-> acc]

\* parseInt(s): an optional sign, then the leading digits; NaN without digits
\* (and for undefined).
parseInt(s) ==
    LET signed == s # << >> /\ s[1] \in {"-", "+"}
        digits == ParseDigits(IF signed THEN Tail(s) ELSE s, 0, FALSE) IN
    IF digits.nan THEN digits
    ELSE [nan |-> FALSE, n |-> IF signed /\ s[1] = "-" THEN 0 - digits.n ELSE digits.n]

\* parseInt(s) || def: NaN and 0 are falsy.
OrDefault(parsed, def) ==
    IF parsed.nan \/ parsed.n = 0 THEN def ELSE parsed.n

ListDefaultLimit == 50
SearchDefaultLimit == 20

Param(q, name) == IF name \in DOMAIN q THEN q[name] ELSE << >>

\* The strings the model stores, in the binary order MongoDB compares them in.
StringOrder == <<"", "a", "ab", "general", "high", "low", "medium", "urgent", "work", "x">>

StringRank(s) == CHOOSE k \in 1..Len(StringOrder) : StringOrder[k] = s

StrLess(a, b) == StringRank(a) < StringRank(b)

\* The lower-cased characters of the titles and search terms of the model.
LowerChars(s) ==
    CASE s = "a" -> <<"a">>
      [] s = "A" -> <<"a">>
      [] s = "b" -> <<"b">>
      [] s = "B" -> <<"b">>
      [] s = "ab" -> <<"a", "b">>
      [] s = "x" -> <<"x">>
      [] s = "z" -> <<"z">>
      [] OTHER -> << >>

\* { $regex: term, $options: 'i' } for a term without metacharacters: term
\* occurs in text, letter case aside.
RegexTest(term, text) ==
    LET t == LowerChars(term)
        x == LowerChars(text) IN
    \E k \in 0..Len(x) : k + Len(t) <= Len(x) /\ SubSeq(x, k + 1, k + Len(t)) = t

\* The query getUserTodos builds (the category and date-range filters are left
\* out): the caller's todos that pass the filters present.
Matches(doc, userId, q) ==
    /\ doc.user = userId
    /\ ("completed" \in DOMAIN q /\ q.completed \in {"true", "false"}
            => doc.completed = (q.completed = "true"))
    /\ ("priority" \in DOMAIN q /\ q.priority # "" => doc.priority = q.priority)
    /\ ("search" \in DOMAIN q /\ q.search # "" => RegexTest(q.search, doc.title))

Matching(userId, q) == {i \in DOMAIN todos : Matches(todos[i], userId, q)}

\* BSON order of two dueDate values: null sorts before every date.
BsonLt(a, b) ==
    IF a = Null THEN b # Null
    ELSE b # Null /\ a[1] < b[1]

\* The sort document: d1 has to come before d2.
SortsBefore(sortBy, d1, d2) ==
    CASE sortBy = "priority" ->
            \/ StrLess(d2.priority, d1.priority)
            \/ d1.priority = d2.priority /\ d1.createdAt > d2.createdAt
      [] sortBy = "dueDate" ->
            \/ BsonLt(d1.dueDate, d2.dueDate)
            \/ d1.dueDate = d2.dueDate /\ d1.createdAt > d2.createdAt
      [] sortBy = "title" -> StrLess(d1.title, d2.title)
      [] sortBy = "completed" ->
            \/ ~d1.completed /\ d2.completed
            \/ d1.completed = d2.completed /\ d1.createdAt > d2.createdAt
      [] OTHER -> d1.createdAt > d2.createdAt

\* The orders find().sort() can return the ids in: documents the sort keys do
\* not tell apart come in any order.
Sorted(ids, sortBy) ==
    {s \in [1..Cardinality(ids) -> ids] :
        /\ \A j, k \in DOMAIN s : j # k => s[j] # s[k]
        /\ \A j, k \in DOMAIN s : j < k => ~SortsBefore(sortBy, todos[s[k]], todos[s[j]])}

\* .limit(limit).skip(skip): the server skips first; the driver sends a
\* negative limit as its absolute value.
Page(sorted, limit, skip) ==
    LET n == IF limit < 0 THEN 0 - limit ELSE limit
        last == IF skip + n < Len(sorted) THEN skip + n ELSE Len(sorted) IN
    [k \in 1..(IF last > skip THEN last - skip ELSE 0) |-> todos[sorted[skip + k]]]

\* hasMore: total > skip + todos.length
HasMoreIgnoresSkip(total, skip, returned) == total > returned

HasMore(total, skip, returned) == total > skip + returned

ListData(page, total, limit, skip) ==
    [todos |-> page, total |-> total, limit |-> limit, skip |-> skip,
     hasMore |-> HasMore(total, skip, Len(page))]

\* The find of a list or search request: authenticate, the effective limit and
\* skip, then the page. The server rejects a negative skip.
FindStep(r, op, bearer, q, sortBy, defaultLimit) ==
    LET a == authenticate(bearer)
        limit == OrDefault(parseInt(Param(q, "limit")), defaultLimit)
        skip == OrDefault(parseInt(Param(q, "skip")), 0) IN
    /\ Idle(r)
    /\ UNCHANGED <<todos, nextTodoId, now, refreshSecret, issued, revoked>>
    /\ IF a.status # 200
       THEN /\ Answer(Response(op, 401, 0, bearer, 0, {}, 0, Null))
            /\ UNCHANGED users
       ELSE /\ users' = updateLastActive(a.userId)
            /\ IF skip < 0
               THEN Answer(Response(op, 500, a.userId, bearer, 0, {}, 0, <<q>>))
               ELSE \E sorted \in Sorted(Matching(a.userId, q), sortBy) :
                       Continue(r, Req(op, "count", bearer, a.userId, <<q>>,
                                       <<Page(sorted, limit, skip), limit, skip>>))

\* countDocuments(query), then the 200.
CountStep(r, op) ==
    /\ reqs[r].route = op /\ reqs[r].pc = "count"
    /\ UNCHANGED <<users, todos, nextTodoId, now, refreshSecret, issued, revoked>>
    /\ Respond(r, Response(op, 200, reqs[r].user, reqs[r].token, 0, {},
                           Cardinality(Matching(reqs[r].user, reqs[r].body[1])),
                           <<reqs[r].body[1],
                             ListData(reqs[r].new[1],
                                      Cardinality(Matching(reqs[r].user, reqs[r].body[1])),
                                      reqs[r].new[2], reqs[r].new[3])>>))

\* filters.sortBy; without it the sort is { createdAt: -1 }.
SortBy(q) == IF "sortBy" \in DOMAIN q THEN q.sortBy ELSE "createdAt"

\* GET /api/todos: Todo.getUserTodos(req.userId, filters)
ListFind(r, bearer, q) ==
    FindStep(r, "list", bearer, q, SortBy(q), ListDefaultLimit)

ListCount(r) == CountStep(r, "list")

\* The filter of the search route: the :query parameter on the caller's todos,
\* with req.query.limit and req.query.skip.
SearchQuery(term, query) ==
    [k \in {"search"} \cup (DOMAIN query \cap {"limit", "skip"}) |->
        IF k = "search" THEN term ELSE query[k]]

\* GET /api/todos/search/:query
SearchFind(r, bearer, term, query) ==
    FindStep(r, "search", bearer, SearchQuery(term, query), "createdAt", SearchDefaultLimit)

SearchCount(r) == CountStep(r, "search")

\* ------------------------------------------------------------------ sorted lists
\* Alice creates todos of the three priorities while time passes and lists them.
SortQueries == <<[sortBy |-> "priority"], [sortBy |-> "createdAt"]>>

NextSort ==
    \/ \E p \in PriorityEnum : CreateTodo(Alice, [title |-> "a", priority |-> p])
    \/ \E k \in 1..Len(SortQueries) : ListFind(1, Alice, SortQueries[k])
    \/ ListCount(1)
    \/ Tick

SpecSort == Init /\ [][NextSort]_vars

\* The order the priorities are meant in.
PriorityRank(p) == CASE p = "high" -> 3 [] p = "medium" -> 2 [] p = "low" -> 1 [] OTHER -> 0

\* C12: a list with sortBy=priority has every high todo before every medium one
\* and every medium one before every low one, equal priorities in descending
\* creation time.
C12_PrioritySort ==
    (res.op = "list" /\ res.status = 200 /\ SortBy(res.data[1]) = "priority") =>
        LET page == res.data[2].todos IN
        \A j, k \in DOMAIN page : j < k =>
            /\ PriorityRank(page[j].priority) >= PriorityRank(page[k].priority)
            /\ (page[j].priority = page[k].priority =>
                    page[j].createdAt >= page[k].createdAt)

\* ------------------------------------------------------------------ pages
\* Alice lists and searches her todos with every kind of limit and skip.
PageParams == {<< >>, <<"x">>, <<"0">>, <<"1">>, <<"-", "1">>, <<"1", "x">>}

PageQueries == {[limit |-> l, skip |-> s] : l \in PageParams, s \in PageParams}

NextPage ==
    \/ CreateTodo(Alice, [title |-> "a"])
    \/ \E q \in PageQueries : ListFind(1, Alice, q)
    \/ ListCount(1)
    \/ \E q \in PageQueries : SearchFind(1, Alice, "a", q)
    \/ SearchCount(1)

SpecPage == Init /\ [][NextPage]_vars

\* A parameter the client sent as a number: digits after an optional sign.
Numeric(s) ==
    LET digits == {"0", "1", "2", "3", "4", "5", "6", "7", "8", "9"} IN
    /\ s # << >>
    /\ \/ s[1] \in digits
       \/ s[1] \in {"-", "+"} /\ Len(s) > 1 /\ s[2] \in digits

\* C14: the effective limit and skip of a list are non-negative integers, 50
\* and 0 when the parameter is absent or not a number.
C14_EffectivePaging ==
    (res.op = "list" /\ res.status = 200) =>
        LET q == res.data[1]
            d == res.data[2] IN
        /\ d.limit \in Nat /\ d.skip \in Nat
        /\ (~Numeric(q.limit) => d.limit = 50)
        /\ (~Numeric(q.skip) => d.skip = 0)

\* ------------------------------------------------------------------ counts
\* Alice pages through and searches her todos while she and bob create and
\* delete todos.
CountParams == {<< >>, <<"1">>}

CountQueries ==
    {[limit |-> l, skip |-> s] : l \in CountParams, s \in CountParams}
        \cup {[search |-> "b"], [completed |-> "false", limit |-> <<"1">>]}

NextCount ==
    \/ \E b \in Owners, t \in {"a", "ab"} : CreateTodo(b, [title |-> t])
    \/ \E b \in Owners, i \in TodoIds : DeleteTodo(b, i)
    \/ \E q \in CountQueries : ListFind(1, Alice, q)
    \/ ListCount(1)
    \/ \E q \in {[limit |-> l] : l \in CountParams} : SearchFind(1, Alice, "B", q)
    \/ SearchCount(1)

SpecCount == Init /\ [][NextCount]_vars

\* The todos of a user that a response's query selects, counted on the stored
\* collection.
Selected(userId, q) ==
    {i \in DOMAIN todos :
        /\ todos[i].user = userId
        /\ ("completed" \in DOMAIN q => ~todos[i].completed)
        /\ ("search" \in DOMAIN q => todos[i].title = "ab")}

\* C15: list and search answer with total the number of the caller's todos the
\* filter matches, whatever limit and skip are, and with hasMore true exactly
\* when total > skip + the number of items returned, also when todos come and
\* go between the page query and the count query.
C15_TotalAndHasMore ==
    (res.op \in {"list", "search"} /\ res.status = 200) =>
        LET d == res.data[2] IN
        /\ d.total = Cardinality(Selected(res.user, res.data[1]))
        /\ d.hasMore = (d.total > d.skip + Len(d.todos))

\* A list without limit came back with fewer todos than total: one was created
\* between its two queries. And a page longer than total: one was deleted.
C15_Witness ==
    /\ res.op = "list" /\ res.status = 200
    /\ res.data[2].limit = 50 /\ res.data[2].skip = 0
    /\ Len(res.data[2].todos) < res.data[2].total
    /\ res.data[2].hasMore

\* ------------------------------------------------------------------ statistics
\* Todo.getUserStats(userId): one $group over the user's todos; the overdue
\* $cond compares '$dueDate' with new Date() in BSON order. Without a todo the
\* aggregate returns nothing and the zeros are the default.
getUserStats(userId) ==
    LET mine == {i \in DOMAIN todos : todos[i].user = userId} IN
    [total |-> Cardinality(mine),
     completed |-> Cardinality({i \in mine : todos[i].completed = TRUE}),
     pending |-> Cardinality({i \in mine : todos[i].completed = FALSE}),
     overdue |-> Cardinality({i \in mine : /\ todos[i].completed = FALSE
                                            /\ BsonLt(todos[i].dueDate, Date(now))})]

\* GET /api/todos/stats
GetStats(bearer) ==
    LET a == authenticate(bearer) IN
    /\ UNCHANGED <<todos, nextTodoId, now, refreshSecret, issued, reqs, revoked>>
    /\ IF a.status # 200
       THEN /\ res' = Response("stats", 401, 0, bearer, 0, {}, 0, Null)
            /\ UNCHANGED users
       ELSE /\ users' = updateLastActive(a.userId)
            /\ res' = Response("stats", 200, a.userId, bearer, 0, {}, 0,
                               <<getUserStats(a.userId)>>)

\* Alice and bob create todos with and without a due date and complete some of
\* them while time passes; both ask for their statistics.
StatsBodies == <<[title |-> "a"], [title |-> "a", dueDate |-> Date(0)],
                 [title |-> "a", dueDate |-> Date(1)]>>

NextStats ==
    \/ \E b \in Owners, k \in 1..Len(StatsBodies) : CreateTodo(b, StatsBodies[k])
    \/ \E b \in Owners, i \in TodoIds : ToggleTodo(b, i)
    \/ \E b \in Owners : GetStats(b)
    \/ Tick

SpecStats == Init /\ [][NextStats]_vars

\* C13: the statistics of a user are total = the number of the user's todos,
\* completed and pending = those with completed true and false, overdue = the
\* pending ones whose due date is strictly in the past; a todo without a due
\* date is not overdue, and nobody else's todo is counted.
C13_Stats ==
    (res.op = "stats" /\ res.status = 200) =>
        LET own == {i \in DOMAIN todos : todos[i].user = res.user}
            stats == res.data[1] IN
        /\ stats.total = Cardinality(own)
        /\ stats.completed = Cardinality({i \in own : todos[i].completed})
        /\ stats.pending = Cardinality({i \in own : ~todos[i].completed})
        /\ stats.overdue =
              Cardinality({i \in own : /\ ~todos[i].completed
                                       /\ todos[i].dueDate # Null
                                       /\ todos[i].dueDate[1] < now})

\* ------------------------------------------------------------------ rotation
\* await user.addRefreshToken(refreshToken) rejects: the catch answers 500.
RefreshAddFails(r) ==
    /\ reqs[r].route = "refresh" /\ reqs[r].pc = "add"
    /\ UNCHANGED <<users, todos, nextTodoId, now, refreshSecret, issued, revoked>>
    /\ Respond(r, AuthResponse("refresh", 500, reqs[r].user, reqs[r].token, Null))

\* The process dies: every request in flight stops where it is (body keeps the
\* await it stood at) and is never answered. The database keeps what was
\* written.
Crash ==
    /\ \E r \in ReqIds : reqs[r].pc \notin {"idle", "crashed"}
    /\ reqs' = [r \in ReqIds |->
                  IF reqs[r].pc \in {"idle", "crashed"} THEN reqs[r]
                  ELSE [reqs[r] EXCEPT !.pc = "crashed", !.body = <<reqs[r].pc>>]]
    /\ res' = NoResponse
    /\ UNCHANGED <<users, todos, nextTodoId, now, refreshSecret, issued, revoked>>

\* alice's sessions rotate their tokens and log in again while the process may
\* die.
NextRotate ==
    \/ \E r \in ReqIds, t \in HandedOut(1) : RefreshStart(r, t)
    \/ \E r \in ReqIds : RefreshRemove(r)
    \/ \E r \in ReqIds : RefreshAdd(r)
    \/ \E r \in ReqIds : RefreshAddFails(r)
    \/ \E r \in ReqIds : LoginStart(r, LoginBodies[1])
    \/ \E r \in ReqIds : LoginAddToken(r)
    \/ \E r \in ReqIds : LoginLastActive(r)
    \/ Crash
    \/ Tick

SpecRotate == InitAuth /\ [][NextRotate]_vars

\* A refresh request that died between its two writes.
DiedBetweenWrites(req) ==
    req.route = "refresh" /\ req.pc = "crashed" /\ req.body = <<"add">>

\* C16 as claimed: when the handler of POST /api/auth/refresh crashes between
\* its two writes, the old refresh token is still in the user's active set.
C16_OldTokenKeptStep ==
    \A r \in ReqIds :
        (reqs[r].route = "refresh" /\ reqs[r].pc = "add" /\ DiedBetweenWrites(reqs'[r])) =>
            reqs[r].token \in users'[reqs[r].user].refreshTokens

C16_OldTokenKept == [][C16_OldTokenKeptStep]_vars

\* C16: the rotation of POST /api/auth/refresh is two writes, the removal of
\* the old refresh token first; a crash (or a failure of the second write)
\* between them writes nothing more, so the old token stays removed and the
\* new one is not stored by this request, and a later POST /api/auth/refresh
\* with the old token is answered 401 unless another request has stored the
\* same token again.
C16_CrashStep ==
    \A r \in ReqIds :
        /\ (reqs[r].route = "refresh" /\ reqs[r].pc = "remove" /\ reqs'[r].pc = "add") =>
              reqs[r].token \notin users'[reqs[r].user].refreshTokens
        /\ (reqs[r].route = "refresh" /\ reqs[r].pc = "add" /\ reqs'[r] # reqs[r]
                /\ res'.status # 200) =>
              users' = users /\ issued' = issued
        /\ (DiedBetweenWrites(reqs[r]) /\ reqs' = reqs /\ res'.op = "refresh"
                /\ res'.token = reqs[r].token /\ ~Active(res'.token)) =>
              res'.status = 401 /\ users' = users

C16_CrashBetweenWrites == [][C16_CrashStep]_vars

\* A rotation died between its writes and a later refresh with its old token,
\* still signed and unexpired, was answered 401.
C16_Witness ==
    \E r \in ReqIds :
        /\ DiedBetweenWrites(reqs[r])
        /\ res.op = "refresh" /\ res.status = 401
        /\ res.token = reqs[r].token
        /\ jwtVerify(res.token, refreshSecret) = "ok"

\* C17: one refresh token is exchanged for a new pair at most once; of two
\* interleaved POST /api/auth/refresh with the same token, which both passed
\* validateRefreshToken before either removed it, at most one is answered
\* with a pair. Two 200 answers in consecutive steps come from two requests
\* that were both past validateRefreshToken.
C17_ExchangeStep ==
    ~ /\ res.op = "refresh" /\ res.status = 200
      /\ res'.op = "refresh" /\ res'.status = 200
      /\ res'.token = res.token
      /\ res'.data # res.data

C17_ExchangedOnce == [][C17_ExchangeStep]_vars

\* ------------------------------------------------------------------ token kinds
\* alice's client sends each of the tokens of her 201 response, and the tokens
\* later responses hand out, in either place: as the bearer token and as the
\* refreshToken of the body.
SwapTokens == {t \in issued : t.userId = 1}

NextSwap ==
    \/ \E b \in SwapTokens : GetMe(b)
    \/ \E b \in SwapTokens : CreateTodo(b, CreateBodies[1])
    \/ \E b \in SwapTokens, i \in TodoIds : ToggleTodo(b, i)
    \/ \E b \in SwapTokens : LogoutAllStart(1, b)
    \/ LogoutAllRemove(1)
    \/ \E t \in SwapTokens : RefreshStart(1, t)
    \/ RefreshRemove(1)
    \/ RefreshAdd(1)
    \/ Tick

SpecSwap == InitAuth /\ [][NextSwap]_vars

\* C18: access and refresh tokens are not interchangeable, with or without a
\* refresh secret of its own: a refresh token as the bearer token is answered
\* 401 by authenticate and enters no handler, and an access token as the
\* refreshToken of the body is answered 401 by validateRefreshToken and is not
\* exchanged.
C18_KindStep ==
    /\ (res'.op \in GatedOps /\ res'.token.type = "refresh") => res'.status = 401
    /\ (res'.op = "refresh" /\ res'.token.type = "access") => res'.status = 401
    /\ \A r \in ReqIds :
          Idle(r) =>
              /\ (reqs'[r].route \in GatedOps => reqs'[r].token.type # "refresh")
              /\ (reqs'[r].route = "refresh" => reqs'[r].token.type # "access")

C18_NotInterchangeable == [][C18_KindStep]_vars

====
